---- MODULE Spec2Model ----
(***************************************************************************)
(* The LS-8 style emulator of cpu_sprint.py / ls8_sprint.py as a state     *)
(* machine.  The machine's fields (reg, pc, ir, fl, ram, halted) are the   *)
(* variables; standard output and the position of the main script are      *)
(* state too.  Python integers are unbounded and Python lists accept       *)
(* negative indices, and the model keeps both: a register or memory cell   *)
(* is an Int, and an index i of a list of length n is valid iff            *)
(* -n <= i < n and then addresses element i mod n.                         *)
(***************************************************************************)
EXTENDS Integers, Sequences, FiniteSets, TLC

(* ------------------------------------------------------------------ *)
(* Opcodes (cpu_sprint.py lines 5-25), written in decimal.             *)
(* ------------------------------------------------------------------ *)
ADD == 160
AND == 168
CALL == 80
CMP == 167
HLT == 1
JEQ == 85
JMP == 84
JNE == 86
LDI == 130
MOD == 164
MUL == 162
NOT == 105
OR == 170
POP == 70
PRN == 71
PUSH == 69
RET == 17
SHL == 172
SHR == 173
XOR == 171
SP == 7

RegLen == 8
RamLen == 256
InitSP == 244

(* ------------------------------------------------------------------ *)
(* Bounds of the model.                                                *)
(* ------------------------------------------------------------------ *)
\* at most this many fetch-decode-execute cycles are explored per run
MaxCycles == 14
\* register and memory values are explored while |v| <= 2^MaxBits
MaxBits == 20

(* ------------------------------------------------------------------ *)
(* Python integer and list primitives.                                 *)
(* ------------------------------------------------------------------ *)
Abs(n) == IF n < 0 THEN -n ELSE n

RECURSIVE Pow2(_)
Pow2(n) == IF n <= 0 THEN 1 ELSE 2 * Pow2(n - 1)

Limit == Pow2(MaxBits)

\* list[i] on a list of length n: IndexError unless -n <= i < n
IndexOK(i, n) == i >= -n /\ i < n
Index(i, n) == i % n

RegOK(i) == IndexOK(i, RegLen)
RegIx(i) == Index(i, RegLen)
RamOK(i) == IndexOK(i, RamLen)
RamIx(i) == Index(i, RamLen)

\* x & y, x | y, x ^ y, ~x on unbounded two's-complement integers
RECURSIVE BitAnd(_, _)
BitAnd(x, y) ==
    IF x = 0 \/ y = 0 THEN 0
    ELSE IF x = -1 THEN y
    ELSE IF y = -1 THEN x
    ELSE (x % 2) * (y % 2) + 2 * BitAnd(x \div 2, y \div 2)

BitNot(x) == -x - 1

RECURSIVE BitOr(_, _)
BitOr(x, y) ==
    IF x = 0 THEN y
    ELSE IF y = 0 THEN x
    ELSE IF x = -1 \/ y = -1 THEN -1
    ELSE (IF x % 2 = 1 \/ y % 2 = 1 THEN 1 ELSE 0) + 2 * BitOr(x \div 2, y \div 2)

RECURSIVE BitXor(_, _)
BitXor(x, y) ==
    IF x = 0 THEN y
    ELSE IF y = 0 THEN x
    ELSE IF x = -1 THEN BitNot(y)
    ELSE IF y = -1 THEN BitNot(x)
    ELSE (IF x % 2 = y % 2 THEN 0 ELSE 1) + 2 * BitXor(x \div 2, y \div 2)

\* x % y for y # 0: the result takes the sign of the divisor
PyMod(x, y) == IF y > 0 THEN x % y ELSE -((-x) % (-y))

\* x >> n for n >= 0 is floor(x / 2^n)
ShiftRight(x, n) ==
    IF n > MaxBits + 1 THEN (IF x < 0 THEN -1 ELSE 0) ELSE x \div Pow2(n)

\* x << n for n >= 0 is x * 2^n
ShiftLeft(x, n) == IF x = 0 THEN 0 ELSE x * Pow2(n)

(* ------------------------------------------------------------------ *)
(* Text: a line of the program file and a line of standard output are  *)
(* sequences of one-character strings.                                 *)
(* ------------------------------------------------------------------ *)
Digits == <<"0", "1", "2", "3", "4", "5", "6", "7", "8", "9">>

RECURSIVE DecimalNat(_)
DecimalNat(n) ==
    IF n < 10 THEN <<Digits[n + 1]>>
    ELSE Append(DecimalNat(n \div 10), Digits[(n % 10) + 1])

\* str(n), as print(n) writes it
Decimal(n) == IF n < 0 THEN <<"-">> \o DecimalNat(-n) ELSE DecimalNat(n)

FileNotFoundMsg ==
    <<"F", "i", "l", "e", " ", "n", "o", "t", " ", "f", "o", "u", "n", "d", ".">>

\* line.split("#")[0]
RECURSIVE BeforeHash(_)
BeforeHash(line) ==
    IF line = <<>> \/ Head(line) = "#" THEN <<>>
    ELSE <<Head(line)>> \o BeforeHash(Tail(line))

Blank == {" ", "\n", "\t"}

RECURSIVE LStrip(_)
LStrip(s) == IF s # <<>> /\ Head(s) \in Blank THEN LStrip(Tail(s)) ELSE s

RECURSIVE RStrip(_)
RStrip(s) ==
    IF s # <<>> /\ s[Len(s)] \in Blank THEN RStrip(SubSeq(s, 1, Len(s) - 1)) ELSE s

Strip(s) == RStrip(LStrip(s))

\* int(s, 2) succeeds on a non-empty run of binary digits (signs, the 0b
\* prefix and underscores, which int() also accepts, are not generated here)
IsBinary(s) == s # <<>> /\ \A i \in 1..Len(s) : s[i] \in {"0", "1"}

RECURSIVE BinValue(_)
BinValue(s) ==
    IF s = <<>> THEN 0
    ELSE 2 * BinValue(SubSeq(s, 1, Len(s) - 1)) + (IF s[Len(s)] = "1" THEN 1 ELSE 0)

(* ------------------------------------------------------------------ *)
(* State.                                                              *)
(* ------------------------------------------------------------------ *)
VARIABLES
    reg,     \* self.reg: list of 8 integers
    pc,      \* self.pc
    ir,      \* self.ir
    fl,      \* self.fl
    ram,     \* self.ram: list of 256 integers
    halted,  \* self.halted
    out,     \* standard output, one entry per printed line
    at,      \* position of the script: "load", "run" (top of the while loop),
             \* "advance" (after dispatch, line 167), "done" (process ended)
    exc,     \* the exception that ended the process, "none" while it runs
    hist     \* the cycles dispatched so far: pc, ir, operands, reg and fl
             \* as they were when the handler was entered

vars == <<reg, pc, ir, fl, ram, halted, out, at, exc, hist>>

machine == <<reg, pc, fl, ram, halted, out>>

\* CPU.__init__
Init ==
    /\ reg = [i \in 0..(RegLen - 1) |-> IF i = 7 THEN InitSP ELSE 0]
    /\ pc = 0
    /\ ir = 0
    /\ fl = 0
    /\ ram = [i \in 0..(RamLen - 1) |-> 0]
    /\ halted = FALSE
    /\ out = <<>>
    /\ at = "load"
    /\ exc = "none"
    /\ hist = <<>>

(* ------------------------------------------------------------------ *)
(* Memory primitives and the loader.                                   *)
(* ------------------------------------------------------------------ *)
ram_read(address) == ram[RamIx(address)]

ram_write(mem, address, value) == [mem EXCEPT ![RamIx(address)] = value]

\* the for loop of load(): the k-th line that parses (k = 0, 1, ...) is written
\* at address k; a line that does not parse is skipped, and so is every write
\* past the end of memory (ram_write raises and the bare except continues)
LoadLines(lines, mem) ==
    LET bin_nums == [i \in 1..Len(lines) |-> Strip(BeforeHash(lines[i]))]
        parsed == SelectSeq(bin_nums, IsBinary)
    IN  [address \in DOMAIN mem |->
            IF address < Len(parsed) THEN BinValue(parsed[address + 1])
            ELSE mem[address]]

(* ------------------------------------------------------------------ *)
(* Decoder (run, lines 154-156).                                       *)
(* ------------------------------------------------------------------ *)
num_args(instr) == instr \div 64
is_alu_op(instr) == (instr \div 32) % 2
pc_setter(instr) == (instr \div 16) % 2

(* ------------------------------------------------------------------ *)
(* How a handler ends: it returns to run(), or it raises and the       *)
(* exception, which nothing catches, ends the process.                 *)
(* ------------------------------------------------------------------ *)
Returns == at' = "advance" /\ exc' = "none"
Raises(e) == at' = "done" /\ exc' = e

(* ------------------------------------------------------------------ *)
(* Instruction handlers.                                               *)
(* ------------------------------------------------------------------ *)
hlt_returns(operand_a, operand_b) ==
    /\ halted' = TRUE
    /\ UNCHANGED <<reg, pc, fl, ram, out>>
    /\ Returns

hlt(operand_a, operand_b) ==
    /\ halted' = TRUE
    /\ UNCHANGED <<reg, pc, fl, ram, out>>
    /\ Raises("SystemExit")

call_stores_pc(operand_a, operand_b) ==
    LET sp == reg[SP] - 1
        r1 == [reg EXCEPT ![SP] = sp]
    IN  /\ reg' = r1
        /\ IF ~RamOK(sp)
           THEN UNCHANGED <<pc, fl, ram, halted, out>> /\ Raises("IndexError")
           ELSE /\ ram' = ram_write(ram, sp, pc)
                /\ UNCHANGED <<fl, halted, out>>
                /\ IF ~RegOK(operand_a)
                   THEN pc' = pc /\ Raises("IndexError")
                   ELSE pc' = r1[RegIx(operand_a)] /\ Returns

call(operand_a, operand_b) ==
    LET sp == reg[SP] - 1
        r1 == [reg EXCEPT ![SP] = sp]
    IN  /\ reg' = r1
        /\ IF ~RamOK(sp)
           THEN UNCHANGED <<pc, fl, ram, halted, out>> /\ Raises("IndexError")
           ELSE /\ ram' = ram_write(ram, sp, pc + 2)
                /\ UNCHANGED <<fl, halted, out>>
                /\ IF ~RegOK(operand_a)
                   THEN pc' = pc /\ Raises("IndexError")
                   ELSE pc' = r1[RegIx(operand_a)] /\ Returns

jeq(operand_a, operand_b) ==
    /\ UNCHANGED <<reg, fl, ram, halted, out>>
    /\ IF fl = 1
       THEN IF ~RegOK(operand_a)
            THEN pc' = pc /\ Raises("IndexError")
            ELSE pc' = reg[RegIx(operand_a)] /\ Returns
       ELSE pc' = pc + 2 /\ Returns

jmp(operand_a, operand_b) ==
    /\ UNCHANGED <<reg, fl, ram, halted, out>>
    /\ IF ~RegOK(operand_a)
       THEN pc' = pc /\ Raises("IndexError")
       ELSE pc' = reg[RegIx(operand_a)] /\ Returns

jne_on_zero_flags(operand_a, operand_b) ==
    /\ UNCHANGED <<reg, fl, ram, halted, out>>
    /\ IF fl = 0
       THEN IF ~RegOK(operand_a)
            THEN pc' = pc /\ Raises("IndexError")
            ELSE pc' = reg[RegIx(operand_a)] /\ Returns
       ELSE pc' = pc + 2 /\ Returns

jne(operand_a, operand_b) ==
    /\ UNCHANGED <<reg, fl, ram, halted, out>>
    /\ IF fl # 1
       THEN IF ~RegOK(operand_a)
            THEN pc' = pc /\ Raises("IndexError")
            ELSE pc' = reg[RegIx(operand_a)] /\ Returns
       ELSE pc' = pc + 2 /\ Returns

ldi(operand_a, operand_b) ==
    /\ UNCHANGED <<pc, fl, ram, halted, out>>
    /\ IF ~RegOK(operand_a)
       THEN reg' = reg /\ Raises("IndexError")
       ELSE reg' = [reg EXCEPT ![RegIx(operand_a)] = operand_b] /\ Returns

pop_keeps_sp(operand_a, operand_b) ==
    /\ UNCHANGED <<pc, fl, ram, halted, out>>
    /\ IF ~RamOK(reg[SP]) \/ ~RegOK(operand_a)
       THEN reg' = reg /\ Raises("IndexError")
       ELSE /\ reg' = [reg EXCEPT ![RegIx(operand_a)] = ram_read(reg[SP])]
            /\ Returns

pop(operand_a, operand_b) ==
    /\ UNCHANGED <<pc, fl, ram, halted, out>>
    /\ IF ~RamOK(reg[SP]) \/ ~RegOK(operand_a)
       THEN reg' = reg /\ Raises("IndexError")
       ELSE LET r1 == [reg EXCEPT ![RegIx(operand_a)] = ram_read(reg[SP])]
            IN  /\ reg' = [r1 EXCEPT ![SP] = r1[SP] + 1]
                /\ Returns

prn_prints_b(operand_a, operand_b) ==
    /\ UNCHANGED <<reg, pc, fl, ram, halted>>
    /\ IF ~RegOK(operand_b)
       THEN out' = out /\ Raises("IndexError")
       ELSE out' = Append(out, Decimal(reg[RegIx(operand_b)])) /\ Returns

prn(operand_a, operand_b) ==
    /\ UNCHANGED <<reg, pc, fl, ram, halted>>
    /\ IF ~RegOK(operand_a)
       THEN out' = out /\ Raises("IndexError")
       ELSE out' = Append(out, Decimal(reg[RegIx(operand_a)])) /\ Returns

push_before_decrement(operand_a, operand_b) ==
    /\ reg' = [reg EXCEPT ![SP] = reg[SP] - 1]
    /\ UNCHANGED <<pc, fl, halted, out>>
    /\ IF ~RegOK(operand_a) \/ ~RamOK(reg[SP])
       THEN ram' = ram /\ Raises("IndexError")
       ELSE ram' = ram_write(ram, reg[SP], reg[RegIx(operand_a)]) /\ Returns

push(operand_a, operand_b) ==
    LET sp == reg[SP] - 1
        r1 == [reg EXCEPT ![SP] = sp]
    IN  /\ reg' = r1
        /\ UNCHANGED <<pc, fl, halted, out>>
        /\ IF ~RegOK(operand_a) \/ ~RamOK(sp)
           THEN ram' = ram /\ Raises("IndexError")
           ELSE ram' = ram_write(ram, sp, r1[RegIx(operand_a)]) /\ Returns

ret_pops(operand_a, operand_b) ==
    /\ UNCHANGED <<fl, ram, halted, out>>
    /\ IF ~RamOK(reg[SP])
       THEN pc' = pc /\ reg' = reg /\ Raises("IndexError")
       ELSE /\ pc' = ram_read(reg[SP])
            /\ reg' = [reg EXCEPT ![SP] = reg[SP] + 1]
            /\ Returns

ret(operand_a, operand_b) ==
    /\ UNCHANGED <<reg, fl, ram, halted, out>>
    /\ IF ~RamOK(reg[SP])
       THEN pc' = pc /\ Raises("IndexError")
       ELSE pc' = ram_read(reg[SP]) /\ Returns

(* ------------------------------------------------------------------ *)
(* ALU.                                                                *)
(* ------------------------------------------------------------------ *)
\* the value the augmented assignment of `instruction` computes from x and y
alu_value(instruction, x, y) ==
    CASE instruction = ADD -> x + y
      [] instruction = AND -> BitAnd(x, y)
      [] instruction = MOD -> PyMod(x, y)
      [] instruction = MUL -> x * y
      [] instruction = OR -> BitOr(x, y)
      [] instruction = SHL -> ShiftLeft(x, y)
      [] instruction = SHR -> ShiftRight(x, y)
      [] instruction = XOR -> BitXor(x, y)

alu_store_into_b(instruction, reg_a, reg_b) ==
    /\ UNCHANGED <<pc, fl, ram, halted, out>>
    /\ IF ~RegOK(reg_a) \/ ~RegOK(reg_b)
       THEN reg' = reg /\ Raises("IndexError")
       ELSE /\ reg' = [reg EXCEPT ![RegIx(reg_b)] =
                          alu_value(instruction, reg[RegIx(reg_a)], reg[RegIx(reg_b)])]
            /\ Returns

\* self.reg[reg_a] <op>= self.reg[reg_b]
alu_store(instruction, reg_a, reg_b) ==
    /\ UNCHANGED <<pc, fl, ram, halted, out>>
    /\ IF ~RegOK(reg_a) \/ ~RegOK(reg_b)
       THEN reg' = reg /\ Raises("IndexError")
       ELSE /\ reg' = [reg EXCEPT ![RegIx(reg_a)] =
                          alu_value(instruction, reg[RegIx(reg_a)], reg[RegIx(reg_b)])]
            /\ Returns

\* self.reg[reg_a] <<= self.reg[reg_b] and >>=: a negative count raises ValueError
alu_shift(instruction, reg_a, reg_b) ==
    IF RegOK(reg_a) /\ RegOK(reg_b) /\ reg[RegIx(reg_b)] < 0
    THEN UNCHANGED <<reg, pc, fl, ram, halted, out>> /\ Raises("ValueError")
    ELSE alu_store(instruction, reg_a, reg_b)

alu_cmp_accumulates(reg_a, reg_b) ==
    /\ UNCHANGED <<reg, pc, ram, halted, out>>
    /\ IF ~RegOK(reg_a) \/ ~RegOK(reg_b)
       THEN fl' = fl /\ Raises("IndexError")
       ELSE /\ fl' = BitOr(fl, IF reg[RegIx(reg_a)] < reg[RegIx(reg_b)] THEN 4
                               ELSE IF reg[RegIx(reg_a)] > reg[RegIx(reg_b)] THEN 2
                               ELSE 1)
            /\ Returns

alu_cmp_swapped(reg_a, reg_b) ==
    /\ UNCHANGED <<reg, pc, ram, halted, out>>
    /\ IF ~RegOK(reg_a) \/ ~RegOK(reg_b)
       THEN fl' = fl /\ Raises("IndexError")
       ELSE /\ fl' = IF reg[RegIx(reg_a)] < reg[RegIx(reg_b)] THEN 2
                     ELSE IF reg[RegIx(reg_a)] > reg[RegIx(reg_b)] THEN 4
                     ELSE 1
            /\ Returns

alu_cmp(reg_a, reg_b) ==
    /\ UNCHANGED <<reg, pc, ram, halted, out>>
    /\ IF ~RegOK(reg_a) \/ ~RegOK(reg_b)
       THEN fl' = fl /\ Raises("IndexError")
       ELSE /\ fl' = IF reg[RegIx(reg_a)] < reg[RegIx(reg_b)] THEN 4
                     ELSE IF reg[RegIx(reg_a)] > reg[RegIx(reg_b)] THEN 2
                     ELSE 1
            /\ Returns

alu_mod_unchecked(reg_a, reg_b) ==
    IF ~RegOK(reg_a) \/ ~RegOK(reg_b)
    THEN UNCHANGED <<reg, pc, fl, ram, halted, out>> /\ Raises("IndexError")
    ELSE IF reg[RegIx(reg_b)] = 0
    THEN UNCHANGED <<reg, pc, fl, ram, halted, out>> /\ Raises("ZeroDivisionError")
    ELSE alu_store(MOD, reg_a, reg_b)

alu_mod(reg_a, reg_b) ==
    IF ~RegOK(reg_b)
    THEN UNCHANGED <<reg, pc, fl, ram, halted, out>> /\ Raises("IndexError")
    ELSE IF reg[RegIx(reg_b)] = 0
    THEN hlt(reg_a, reg_b)
    ELSE alu_store(MOD, reg_a, reg_b)

alu_not(reg_a, reg_b) ==
    /\ UNCHANGED <<pc, fl, ram, halted, out>>
    /\ IF ~RegOK(reg_a)
       THEN reg' = reg /\ Raises("IndexError")
       ELSE reg' = [reg EXCEPT ![RegIx(reg_a)] = BitNot(reg[RegIx(reg_a)])] /\ Returns

alu(instruction, reg_a, reg_b) ==
    IF instruction = ADD THEN alu_store(ADD, reg_a, reg_b)
    ELSE IF instruction = AND THEN alu_store(AND, reg_a, reg_b)
    ELSE IF instruction = CMP THEN alu_cmp(reg_a, reg_b)
    ELSE IF instruction = MOD THEN alu_mod(reg_a, reg_b)
    ELSE IF instruction = MUL THEN alu_store(MUL, reg_a, reg_b)
    ELSE IF instruction = NOT THEN alu_not(reg_a, reg_b)
    ELSE IF instruction = OR THEN alu_store(OR, reg_a, reg_b)
    ELSE IF instruction = SHL THEN alu_shift(SHL, reg_a, reg_b)
    ELSE IF instruction = SHR THEN alu_shift(SHR, reg_a, reg_b)
    ELSE IF instruction = XOR THEN alu_store(XOR, reg_a, reg_b)
    ELSE UNCHANGED <<reg, pc, fl, ram, halted, out>> /\ Raises("Exception")

\* the keys of self.branchtable
branchtable == {CALL, HLT, JEQ, JMP, JNE, LDI, POP, PRN, PUSH, RET}

dispatch_skips_unknown(instr, operand_a, operand_b) ==
    IF instr \notin branchtable
    THEN UNCHANGED <<reg, pc, fl, ram, halted, out>> /\ Returns
    ELSE CASE instr = CALL -> call(operand_a, operand_b)
           [] instr = HLT -> hlt(operand_a, operand_b)
           [] instr = JEQ -> jeq(operand_a, operand_b)
           [] instr = JMP -> jmp(operand_a, operand_b)
           [] instr = JNE -> jne(operand_a, operand_b)
           [] instr = LDI -> ldi(operand_a, operand_b)
           [] instr = POP -> pop(operand_a, operand_b)
           [] instr = PRN -> prn(operand_a, operand_b)
           [] instr = PUSH -> push(operand_a, operand_b)
           [] instr = RET -> ret(operand_a, operand_b)

\* self.branchtable[self.ir](operand_a, operand_b); a missing key raises KeyError
dispatch(instr, operand_a, operand_b) ==
    IF instr \notin branchtable
    THEN UNCHANGED <<reg, pc, fl, ram, halted, out>> /\ Raises("KeyError")
    ELSE CASE instr = CALL -> call(operand_a, operand_b)
           [] instr = HLT -> hlt(operand_a, operand_b)
           [] instr = JEQ -> jeq(operand_a, operand_b)
           [] instr = JMP -> jmp(operand_a, operand_b)
           [] instr = JNE -> jne(operand_a, operand_b)
           [] instr = LDI -> ldi(operand_a, operand_b)
           [] instr = POP -> pop(operand_a, operand_b)
           [] instr = PRN -> prn(operand_a, operand_b)
           [] instr = PUSH -> push(operand_a, operand_b)
           [] instr = RET -> ret(operand_a, operand_b)

(* ------------------------------------------------------------------ *)
(* The run loop.                                                       *)
(* ------------------------------------------------------------------ *)
\* while not self.halted
Running == ~halted

\* The model follows a run only while the integers it computes stay within
\* Limit (Python's are unbounded) and for MaxCycles cycles.
Explored(instr, operand_a, operand_b) ==
    /\ Len(hist) < MaxCycles
    /\ IF is_alu_op(instr) = 1 /\ RegOK(operand_a) /\ RegOK(operand_b)
       THEN LET x == reg[RegIx(operand_a)]
                y == reg[RegIx(operand_b)]
            IN  CASE instr = ADD -> Abs(x + y) <= Limit
                  [] instr = MUL -> IF y = 0 THEN TRUE ELSE Abs(x) <= Limit \div Abs(y)
                  [] instr = SHL -> IF y < 0 \/ x = 0 THEN TRUE
                                    ELSE IF y > MaxBits THEN FALSE
                                    ELSE Abs(x) <= Limit \div Pow2(y)
                  [] OTHER -> TRUE
       ELSE TRUE

\* One pass of the loop body up to the return of the handler (lines 148-165).
Execute ==
    /\ at = "run"
    /\ Running
    /\ IF ~RamOK(pc)
       THEN UNCHANGED <<machine, ir, hist>> /\ Raises("IndexError")
       ELSE LET instr == ram_read(pc)
            IN  /\ ir' = instr
                /\ IF ~RamOK(pc + 1) \/ ~RamOK(pc + 2)
                   THEN UNCHANGED <<machine, hist>> /\ Raises("IndexError")
                   ELSE LET operand_a == ram_read(pc + 1)
                            operand_b == ram_read(pc + 2)
                        IN  /\ Explored(instr, operand_a, operand_b)
                            /\ hist' = Append(hist, [pc |-> pc, ir |-> instr,
                                                     a |-> operand_a, b |-> operand_b,
                                                     reg |-> reg, fl |-> fl])
                            /\ IF is_alu_op(instr) = 1
                               THEN alu(instr, operand_a, operand_b)
                               ELSE dispatch(instr, operand_a, operand_b)

Advance_always ==
    /\ at = "advance"
    /\ pc' = pc + num_args(ir) + 1
    /\ at' = "run"
    /\ UNCHANGED <<reg, ir, fl, ram, halted, out, exc, hist>>

\* The rest of the loop body (lines 167-169), reached when the handler returned.
Advance ==
    /\ at = "advance"
    /\ pc' = IF pc_setter(ir) # 1 THEN pc + num_args(ir) + 1 ELSE pc
    /\ at' = "run"
    /\ UNCHANGED <<reg, ir, fl, ram, halted, out, exc, hist>>

(* ------------------------------------------------------------------ *)
(* The main script: cpu = CPU(); cpu.load(path); cpu.run().            *)
(* ------------------------------------------------------------------ *)
\* load(filename): `found` is whether open() succeeds, `lines` the file's lines.
\* A missing file is reported and load() returns normally.
load(found, lines) ==
    /\ IF found
       THEN ram' = LoadLines(lines, ram) /\ out' = out
       ELSE ram' = ram /\ out' = Append(out, FileNotFoundMsg)
    /\ UNCHANGED <<reg, pc, ir, fl, halted, exc, hist>>

(* ------------------------------------------------------------------ *)
(* The program files the model loads.  A program is written as its     *)
(* bytes and rendered as the lines of a file.                          *)
(* ------------------------------------------------------------------ *)
Max(x, y) == IF x > y THEN x ELSE y

Bits8(n) == [i \in 1..8 |-> IF (n \div Pow2(8 - i)) % 2 = 1 THEN "1" ELSE "0"]

PlainFile(prog) == [i \in 1..Len(prog) |-> Bits8(prog[i])]

\* the same program with a header comment, a blank line, indented literals
\* with trailing comments, and a line of text
AnnotatedFile(prog) ==
    <<  <<"#", " ", "p">>, <<>>  >>
    \o [i \in 1..Len(prog) |-> <<" ">> \o Bits8(prog[i]) \o <<" ", "#", " ", "1">>]
    \o <<  <<"e", "n", "d">>  >>

\* prog with seg placed at address `addr` (zero bytes fill a gap)
Overlay(prog, addr, seg) ==
    [i \in 1..Max(Len(prog), addr + Len(seg)) |->
        IF i - 1 >= addr /\ i - 1 < addr + Len(seg) THEN seg[i - addr]
        ELSE IF i <= Len(prog) THEN prog[i] ELSE 0]

AluOps == {ADD, AND, CMP, MOD, MUL, NOT, OR, SHL, SHR, XOR}
AluRegs == {0, 1, 7}
AluVals == {0, 1, 3, 200, 255}
AllRegs == 0..7

AluProg(op, a, b, x, y) ==
    <<LDI, a, x, LDI, b, y>>
    \o (IF num_args(op) = 2 THEN <<op, a, b>> ELSE <<op, a>>)
    \o <<PRN, a, HLT>>

AluProgs ==
    {AluProg(op, a, b, x, y) : op \in AluOps, a \in AluRegs, b \in AluRegs,
                               x \in AluVals, y \in AluVals}

\* operands made negative by NOT, then combined
NegProg(op, x, y) ==
    <<LDI, 0, x, NOT, 0, LDI, 1, y>>
    \o (IF num_args(op) = 2 THEN <<op, 1, 0, op, 0, 1>> ELSE <<op, 0, op, 1>>)
    \o <<PUSH, 0, PRN, 1, HLT>>

NegProgs == {NegProg(op, x, y) : op \in AluOps, x \in {0, 5}, y \in {0, 3, 255}}

\* CALL at address p = 6 + 3k through register r to target t, RET at t
CallRetProg(r, t, s, k) ==
    LET pad == [i \in 1..(3 * k) |-> <<LDI, 0, 0>>[((i - 1) % 3) + 1]]
    IN  Overlay(pad \o <<LDI, 7, s, LDI, r, t, CALL, r, HLT>>, t, <<RET>>)

CallRetProgs ==
    {CallRetProg(r, t, s, k) : r \in AllRegs, t \in {20, 30, 253, 254},
                               s \in {244, 0, 21}, k \in {0, 3}}

\* outer CALL at 3 to t1; at t1 an inner CALL at t1 + 3 to t2; RET at t2;
\* back at t1 + 5 the outer subroutine returns, directly or after a POP
NestedProg(r1, r2, t1, t2, tail) ==
    Overlay(Overlay(<<LDI, r1, t1, CALL, r1, HLT>>,
                    t1, <<LDI, r2, t2, CALL, r2>> \o tail),
            t2, <<RET>>)

NestedProgs ==
    {NestedProg(r1, r2, t1, t2, tail) :
        r1 \in {0, 1}, r2 \in {0, 1}, t1 \in {20, 40}, t2 \in {60, 100},
        tail \in {<<RET>>, <<POP, 2, RET>>}}

\* three CALLs in a row to a subroutine that returns at once
CallsProg(t) == Overlay(<<LDI, 0, t, CALL, 0, CALL, 0, CALL, 0, HLT>>, t, <<RET>>)

StackProg(r, s, v) == <<LDI, 7, s, LDI, r, v, PUSH, r, POP, r, PRN, r, HLT>>

StackProgs ==
    {StackProg(r, s, v) : r \in AllRegs, s \in {0, 1, 9, 10, 11, 128, 244, 255},
                          v \in {0, 5, 70, 255}}
    \cup {StackProg(r, 10, r) : r \in AllRegs}

StackEdgeProgs ==
    {<<LDI, 7, s, POP, 0, POP, 1, PUSH, 0, PUSH, 1, HLT>> : s \in {0, 1, 254, 255}}
    \cup {<<LDI, 7, s, PUSH, 0, PUSH, 1, POP, 0, POP, 1, HLT>> : s \in {0, 1, 254, 255}}
    \cup {[i \in 1..(2 * n) |-> IF i % 2 = 1 THEN POP ELSE 0] : n \in {13}}
    \cup {<<LDI, 7, 3, PUSH, 0, PUSH, 0, PUSH, 0, PUSH, 0, PUSH, 0, HLT>>}

JumpProg(j, x, y, t) ==
    Overlay(<<LDI, 0, x, LDI, 1, y, CMP, 0, 1, LDI, 2, t, j, 2, PRN, 0, HLT>>,
            t, <<PRN, 1, HLT>>)

\* a conditional jump before any compare
EarlyJumpProg(j, t) == Overlay(<<LDI, 2, t, j, 2, PRN, 0, HLT>>, t, <<PRN, 1, HLT>>)

JumpProgs ==
    {JumpProg(j, x, y, t) : j \in {JMP, JEQ, JNE}, x \in {0, 1, 255}, y \in {0, 1, 255},
                            t \in {16, 30, 252, 253, 255}}
    \cup {EarlyJumpProg(j, t) : j \in {JMP, JEQ, JNE}, t \in {7, 30, 255}}

\* HLT reached at address p
HaltProgs ==
    {<<HLT>>} \cup {Overlay(<<LDI, 0, p, JMP, 0>>, p, <<HLT>>) : p \in {100, 253, 254, 255}}

\* runs that leave the byte range or the table of opcodes
WildProgs ==
    { Overlay(<<LDI, 0, 253, JMP, 0>>, 253, <<LDI, 1, 1>>),
      <<LDI, 0, 1, LDI, 1, 6, ADD, 0, 0, PRN, 0, JMP, 1>>,
      <<LDI, 0, 32, LDI, 1, 6, MUL, 0, 0, PRN, 0, JMP, 1>>,
      <<LDI, 0, 1, LDI, 1, 30, SHL, 0, 1, PRN, 0, HLT>>,
      <<>> }
    \cup {<<LDI, 0, 1, op, 0, 0, HLT>> : op \in {0, 2, 24, 161, 255}}
    \cup {<<LDI, 0, 1, op, 8, 0, HLT>> : op \in AluOps \cup branchtable}
    \cup {<<LDI, 0, 1, op, 0, 9, HLT>> : op \in AluOps \cup branchtable}

\* load a register, then print it
PrintProgs == {<<LDI, r, v, PRN, r, HLT>> : r \in AllRegs, v \in {0, 7, 42, 255}}

Programs ==
    AluProgs \cup NegProgs \cup CallRetProgs \cup NestedProgs
    \cup {CallsProg(t) : t \in {20, 200}}
    \cup StackProgs \cup StackEdgeProgs \cup JumpProgs \cup HaltProgs \cup WildProgs
    \cup PrintProgs

Files ==
    {PlainFile(prog) : prog \in Programs}
    \cup {AnnotatedFile(prog) : prog \in HaltProgs \cup {CallsProg(20)}}

\* ls8_sprint.py lines 12-15: load the file named on the command line, then run
Main ==
    /\ at = "load"
    /\ \E found \in BOOLEAN :
          \E lines \in (IF found THEN Files ELSE {<<>>}) : load(found, lines)
    /\ at' = "run"

Next == Main \/ Execute \/ Advance

Spec == Init /\ [][Next]_vars

(* ------------------------------------------------------------------ *)
(* Properties.                                                         *)
(* ------------------------------------------------------------------ *)
Last == hist[Len(hist)]
Prev == hist[Len(hist) - 1]

\* the handler of the last dispatched cycle returned (it did not raise)
LastReturned == Len(hist) >= 1 /\ exc = "none" /\ at \in {"advance", "run"}

Byte == 0..255

ArithOps == {ADD, MUL, AND, OR, XOR, NOT, SHL, SHR}

\* the result the specification gives an arithmetic or bitwise opcode
Wrapped(op, x, y) ==
    CASE op = ADD -> (x + y) % 256
      [] op = MUL -> (x * y) % 256
      [] op = AND -> BitAnd(x, y)
      [] op = OR -> BitOr(x, y)
      [] op = XOR -> BitXor(x, y)
      [] op = NOT -> 255 - x
      [] op = SHL -> IF y >= 8 THEN 0 ELSE (x * Pow2(y)) % 256
      [] op = SHR -> IF y >= 8 THEN 0 ELSE x \div Pow2(y)

\* C1: after an arithmetic or bitwise ALU step on registers a, b in 0..7 that
\* held values in 0..255, reg[a] is the operation's result modulo 256.
C1_AluWrapsTo8Bits ==
    (/\ LastReturned
     /\ Last.ir \in ArithOps
     /\ Last.a \in 0..7
     /\ (Last.ir = NOT \/ Last.b \in 0..7)
     /\ Last.reg[Last.a] \in Byte
     /\ (Last.ir = NOT \/ Last.reg[Last.b] \in Byte))
    => reg[Last.a] = Wrapped(Last.ir, Last.reg[Last.a],
                             IF Last.ir = NOT THEN 0 ELSE Last.reg[Last.b])

\* C2: when a CALL fetched at address p is followed at once by a RET that
\* returns, the program counter is p + 2.
C2_CallThenRetResumes ==
    (/\ Len(hist) >= 2
     /\ LastReturned
     /\ Last.ir = RET
     /\ Prev.ir = CALL)
    => pc = Prev.pc + 2

C2_Witness ==
    /\ Len(hist) >= 2
    /\ LastReturned
    /\ at = "run"
    /\ Last.ir = RET
    /\ Prev.ir = CALL
    /\ Prev.a = 7
    /\ pc = Prev.pc + 2

\* the cycle whose CALL the RET of cycle n answers: scanning back from i, a RET
\* opens a nested pair and a CALL closes one; 0 when there is none
RECURSIVE FindCall(_, _)
FindCall(i, depth) ==
    IF i = 0 THEN 0
    ELSE IF hist[i].ir = RET THEN FindCall(i - 1, depth + 1)
    ELSE IF hist[i].ir = CALL
         THEN (IF depth = 0 THEN i ELSE FindCall(i - 1, depth - 1))
    ELSE FindCall(i - 1, depth)

MatchingCall(n) == FindCall(n - 1, 0)

CallsBetween(m, n) == Cardinality({i \in (m + 1)..(n - 1) : hist[i].ir = CALL})

\* C3: a RET that returns, whose subroutine made at most one nested call that
\* returned, resumes after its own CALL: the inner RET at q + 2, the outer RET
\* at p + 2.
C3_NestedCallReturnResumes ==
    (/\ LastReturned
     /\ Last.ir = RET
     /\ MatchingCall(Len(hist)) > 0
     /\ CallsBetween(MatchingCall(Len(hist)), Len(hist)) <= 1)
    => pc = hist[MatchingCall(Len(hist))].pc + 2

\* C4: PUSH r followed at once by POP r, both returning, leaves reg[r] and
\* register 7 as they were before the PUSH.
C4_PushPopRoundTrip ==
    (/\ Len(hist) >= 2
     /\ LastReturned
     /\ Last.ir = POP
     /\ Prev.ir = PUSH
     /\ RegOK(Prev.a) /\ RegOK(Last.a)
     /\ RegIx(Last.a) = RegIx(Prev.a))
    => /\ reg[RegIx(Prev.a)] = Prev.reg[RegIx(Prev.a)]
       /\ reg[SP] = Prev.reg[SP]

C4_Witness ==
    /\ Len(hist) >= 2
    /\ LastReturned
    /\ Last.ir = POP
    /\ Prev.ir = PUSH
    /\ Last.a = Prev.a
    /\ Prev.a \in 0..6
    /\ Prev.reg[Prev.a] = 255
    /\ Prev.reg[SP] = 0
    /\ reg[Prev.a] = 255
    /\ reg[SP] = 0

\* C5: the program counter is always in 0..255.
C5_PcInByteRange == pc \in Byte

\* C6: every register and every memory cell always holds a value in 0..255.
C6_CellsAreBytes ==
    /\ \A i \in DOMAIN reg : reg[i] \in Byte
    /\ \A a \in DOMAIN ram : ram[a] \in Byte

\* cycle i names register 7 as the destination of a load, an ALU result or a pop
WritesR7(i) ==
    /\ hist[i].ir \in {LDI, POP} \cup AluOps
    /\ RegOK(hist[i].a)
    /\ RegIx(hist[i].a) = SP

\* C7: in a run where only the stack instructions themselves have changed
\* register 7 since it was set to 0xF4, register 7 is an address in 0..255
\* whenever a PUSH, POP, CALL or RET is dispatched.
C7_StackPointerIsAddress ==
    (/\ Len(hist) >= 1
     /\ Last.ir \in {PUSH, POP, CALL, RET}
     /\ \A i \in 1..Len(hist) : ~WritesR7(i))
    => Last.reg[SP] \in Byte

\* the byte at pc is MOD and its divisor register holds 0
ModByZeroNext ==
    /\ RamOK(pc) /\ RamOK(pc + 1) /\ RamOK(pc + 2)
    /\ ram_read(pc) = MOD
    /\ RegOK(ram_read(pc + 2))
    /\ reg[RegIx(ram_read(pc + 2))] = 0

\* C8: once halted is true nothing changes any more, and halted becomes true
\* only in a cycle that fetches HLT or a MOD whose divisor is 0.
C8_HaltedIsTerminal ==
    [][/\ (halted => UNCHANGED vars)
       /\ (~halted /\ halted') =>
             /\ at = "run"
             /\ RamOK(pc)
             /\ (ram_read(pc) = HLT \/ ModByZeroNext)]_vars

C8_Witness ==
    /\ halted
    /\ Len(hist) >= 2
    /\ Last.ir = HLT
    /\ at = "done"

\* C9: a MOD cycle whose divisor register holds 0 sets halted, changes no
\* register, flag, memory cell or output, leaves pc alone and ends the run.
C9_ModByZeroHalts ==
    [][/\ (at = "run" /\ Running /\ ModByZeroNext) =>
             /\ halted'
             /\ reg' = reg /\ fl' = fl /\ ram' = ram /\ out' = out /\ pc' = pc
             /\ at' = "done"
       /\ at = "done" => UNCHANGED vars]_vars

C9_Witness ==
    /\ halted
    /\ at = "done"
    /\ Len(hist) >= 1
    /\ Last.ir = MOD
    /\ Last.reg[RegIx(Last.b)] = 0
    /\ Last.reg[RegIx(Last.a)] = 200
    /\ reg = Last.reg

\* C10: when the program file is missing (the load error has been printed) no
\* cycle is ever dispatched and the process does not fault.
C10_MissingFileNeverRuns ==
    (Len(out) >= 1 /\ out[1] = FileNotFoundMsg) => (hist = <<>> /\ exc = "none")


\* the cycle about to run can fetch its instruction and both operand bytes
Fetchable == RamOK(pc) /\ RamOK(pc + 1) /\ RamOK(pc + 2)

\* C11: whenever the loop is running with pc in 0..255 and the byte at pc is
\* HLT, the next step halts the machine and changes no register, flag, memory
\* cell or pc.
C11_HltHaltsInOneCycle ==
    [][(at = "run" /\ Running /\ pc \in Byte /\ ram_read(pc) = HLT) =>
          /\ halted'
          /\ reg' = reg /\ fl' = fl /\ ram' = ram /\ pc' = pc]_vars

\* the flag value the specification gives a compare of x with y
CompareFlag(x, y) == IF x < y THEN 4 ELSE IF x > y THEN 2 ELSE 1

\* C12: after a CMP step that returns, the flags register holds exactly the
\* one bit of the comparison of reg[a] with reg[b], and no register changed.
C12_CmpSetsExactlyOneFlag ==
    (LastReturned /\ Last.ir = CMP)
    => /\ fl = CompareFlag(Last.reg[RegIx(Last.a)], Last.reg[RegIx(Last.b)])
       /\ fl \in {1, 2, 4}
       /\ reg = Last.reg

C12_Witness ==
    /\ LastReturned
    /\ Last.ir = CMP
    /\ Last.reg[Last.a] = 0
    /\ Last.reg[Last.b] = 255
    /\ fl = 4
    /\ reg = Last.reg


\* C13: an ALU step changes no memory cell and prints nothing; for an opcode
\* other than CMP it changes no register but reg[a] and leaves the flags,
\* and CMP changes no register; halted changes only for MOD by zero.
C13_AluFrame ==
    [][(at = "run" /\ Running /\ Fetchable /\ is_alu_op(ram_read(pc)) = 1) =>
          /\ ram' = ram
          /\ out' = out
          /\ ram_read(pc) # CMP =>
                /\ fl' = fl
                /\ \A i \in DOMAIN reg :
                      i # RegIx(ram_read(pc + 1)) => reg'[i] = reg[i]
          /\ ram_read(pc) = CMP => reg' = reg
          /\ halted' # halted => ModByZeroNext]_vars

C13_Witness ==
    /\ LastReturned
    /\ Last.ir = ADD
    /\ Last.a = 0
    /\ Last.b = 1
    /\ Last.reg[0] = 3
    /\ Last.reg[1] = 200
    /\ reg = [Last.reg EXCEPT ![0] = 203]
    /\ fl = Last.fl

\* the byte is none of the ten ALU opcodes (when ALU-classed) and none of the
\* ten branchtable opcodes (when not)
Unrecognized(instr) ==
    IF is_alu_op(instr) = 1 THEN instr \notin AluOps ELSE instr \notin branchtable

\* C14: a cycle that fetches an unrecognized opcode ends the process with an
\* uncaught error, without halting and without changing a register, the
\* flags, memory, pc or the output; and an ended process takes no more steps.
C14_UnknownOpcodeIsFatal ==
    [][/\ (at = "run" /\ Running /\ RamOK(pc) /\ Unrecognized(ram_read(pc))) =>
             /\ at' = "done"
             /\ exc' \in {"KeyError", "Exception", "IndexError"}
             /\ halted' = halted
             /\ reg' = reg /\ fl' = fl /\ ram' = ram /\ pc' = pc /\ out' = out
       /\ at = "done" => UNCHANGED vars]_vars

C14_Witness ==
    /\ at = "done"
    /\ exc = "KeyError"
    /\ Len(hist) >= 2
    /\ Last.ir = 24
    /\ reg = Last.reg
    /\ pc = Last.pc


\* the integer a printed line denotes, read digit by digit
DigitValue(c) == CHOOSE d \in 0..9 : Digits[d + 1] = c

RECURSIVE NatValue(_)
NatValue(s) ==
    IF s = <<>> THEN 0
    ELSE 10 * NatValue(SubSeq(s, 1, Len(s) - 1)) + DigitValue(s[Len(s)])

DecimalValue(line) ==
    IF Head(line) = "-" THEN -NatValue(Tail(line)) ELSE NatValue(line)

\* a decimal numeral without superfluous leading zeros
IsNumeral(line) ==
    LET body == IF Head(line) = "-" THEN Tail(line) ELSE line
    IN  /\ body # <<>>
        /\ \A i \in 1..Len(body) : \E d \in 1..10 : Digits[d] = body[i]
        /\ (Len(body) > 1 => body[1] # "0")

\* the values of reg[operand_a] at the PRN cycles among the first n, in order
RECURSIVE PrnValues(_)
PrnValues(n) ==
    IF n = 0 THEN <<>>
    ELSE IF hist[n].ir = PRN /\ RegOK(hist[n].a)
         THEN Append(PrnValues(n - 1), hist[n].reg[RegIx(hist[n].a)])
    ELSE PrnValues(n - 1)

\* what the instructions printed: the output after the loader's own message
ProgramOutput == IF out # <<>> /\ out[1] = FileNotFoundMsg THEN Tail(out) ELSE out

RECURSIVE Pairs(_)
Pairs(n) ==
    IF n >= 2 /\ hist[n].ir = RET /\ hist[n - 1].ir = CALL
    THEN 1 + Pairs(n - 2)
    ELSE 0

\* after k CALL/RET pairs in a row register 7 is k below where it started
CallRetDrift ==
    (LastReturned /\ Pairs(Len(hist)) > 0)
    => reg[SP] = hist[Len(hist) - 2 * Pairs(Len(hist)) + 1].reg[SP] - Pairs(Len(hist))

\* C16: a CALL step changes register 7 by exactly -1 and no other register, a
\* RET step changes nothing but pc, and so k CALL/RET pairs in a row leave
\* register 7 at its starting value minus k.
C16_CallRetAsymmetry ==
    [][/\ (at = "run" /\ Running /\ Fetchable /\ ram_read(pc) = CALL) =>
             reg' = [reg EXCEPT ![SP] = reg[SP] - 1]
       /\ (at = "run" /\ Running /\ Fetchable /\ ram_read(pc) = RET) =>
             /\ reg' = reg /\ ram' = ram /\ fl' = fl
             /\ out' = out /\ halted' = halted
       /\ CallRetDrift']_vars

C16_Witness ==
    /\ LastReturned
    /\ at = "run"
    /\ Pairs(Len(hist)) = 3
    /\ reg[SP] = InitSP - 3


\* the 20 opcodes the machine recognizes
KnownOps == AluOps \cup branchtable

\* the fields of an instruction byte, by bit position
OperandCount(instr) == instr \div 64
SetsPc(instr) == (instr \div 16) % 2 = 1

\* the pc a cycle leaves according to the decoded bits: the generic advance,
\* or what the handler of a pc-setting opcode assigns
HandlerPc(c) ==
    CASE c.ir = CALL -> [c.reg EXCEPT ![SP] = c.reg[SP] - 1][RegIx(c.a)]
      [] c.ir = JMP -> c.reg[RegIx(c.a)]
      [] c.ir = RET -> ram_read(c.reg[SP])
      [] c.ir = JEQ -> IF c.fl = 1 THEN c.reg[RegIx(c.a)] ELSE c.pc + 2
      [] c.ir = JNE -> IF c.fl # 1 THEN c.reg[RegIx(c.a)] ELSE c.pc + 2

DecodedPc(c) ==
    IF SetsPc(c.ir) THEN HandlerPc(c) ELSE c.pc + 1 + OperandCount(c.ir)

\* the last cycle is over: its handler returned and the loop body finished, or
\* the handler ended the process by exiting
CycleOver ==
    /\ Len(hist) >= 1
    /\ \/ at = "run" /\ exc = "none"
       \/ at = "done" /\ exc = "SystemExit"

\* C17 as stated: whichever of the 20 recognized opcodes a cycle executed, the
\* pc after the cycle is the one the decoded bits give.
C17_PcFollowsBitsForAllOpcodes ==
    (CycleOver /\ Last.ir \in KnownOps) => pc = DecodedPc(Last)

\* C17: after a cycle whose handler returned, the pc is the one the decoded
\* bits give (pc + 1 + operand count when bit 4 is clear, the handler's value
\* when it is set); a cycle whose handler exits the process (HLT, MOD by zero)
\* leaves the pc where it was.
C17_PcFollowsBitsWhenHandlerReturns ==
    /\ (Len(hist) >= 1 /\ at = "run" /\ exc = "none") =>
          /\ Last.ir \in KnownOps
          /\ pc = DecodedPc(Last)
    /\ (Len(hist) >= 1 /\ at = "done" /\ exc = "SystemExit") =>
          /\ Last.ir \in {HLT, MOD}
          /\ pc = Last.pc

C17_Witness ==
    /\ Len(hist) >= 2
    /\ at = "run"
    /\ exc = "none"
    /\ Last.ir = CALL
    /\ Prev.ir = LDI
    /\ pc = Last.reg[Last.a]
    /\ pc # Last.pc + 2


\* the equal condition bit of a flags value
EqualFlag(f) == f % 2 = 1

\* C18: a JEQ step jumps to reg[r] when the equal flag is set and a JNE step
\* when it is not set (the initial zero flags included); the other one of the
\* two moves pc by 2; neither changes registers, flags or memory.
C18_ConditionalJumpsComplement ==
    [][(at = "run" /\ Running /\ Fetchable /\ ram_read(pc) \in {JEQ, JNE}) =>
          LET r == ram_read(pc + 1)
              taken == IF ram_read(pc) = JEQ THEN EqualFlag(fl) ELSE ~EqualFlag(fl)
          IN  /\ reg' = reg /\ fl' = fl /\ ram' = ram
              /\ (taken /\ RegOK(r)) => (pc' = reg[RegIx(r)] /\ at' = "advance")
              /\ ~taken => (pc' = pc + 2 /\ at' = "advance")]_vars

C18_Witness ==
    /\ at = "run"
    /\ LastReturned
    /\ Last.ir = JNE
    /\ Last.fl = 0
    /\ pc = Last.reg[Last.a]
    /\ pc = 30
    /\ reg = Last.reg /\ fl = 0

\* some cycle so far completed a compare
Compared ==
    \E i \in 1..Len(hist) :
        /\ hist[i].ir = CMP
        /\ RegOK(hist[i].a) /\ RegOK(hist[i].b)

\* C19: the flags are always 0, 1, 2 or 4, they are 0 exactly as long as no
\* compare has completed, and only a CMP step changes them.
C19_FlagsOneHotAndCmpOnly ==
    [][/\ fl' \in {0, 1, 2, 4}
       /\ fl' = 0 <=> ~Compared'
       /\ fl' # fl => (at = "run" /\ Running /\ Fetchable /\ ram_read(pc) = CMP)]_vars

C19_Witness ==
    /\ LastReturned
    /\ Last.ir = CMP
    /\ Last.fl = 2
    /\ fl = 4

\* C20: once the image is loaded, memory changes only in a PUSH or CALL step,
\* and then in the one cell at the decremented stack pointer, which receives
\* reg[index] for PUSH and pc + 2 for CALL; every other step leaves memory alone.
C20_OnlyPushAndCallWriteMemory ==
    [][at # "load" =>
          IF /\ at = "run" /\ Running /\ Fetchable
             /\ ram_read(pc) \in {PUSH, CALL}
             /\ RamOK(reg[SP] - 1)
             /\ (ram_read(pc) = PUSH => RegOK(ram_read(pc + 1)))
          THEN /\ reg'[SP] = reg[SP] - 1
               /\ ram' = [ram EXCEPT ![RamIx(reg'[SP])] =
                             IF ram_read(pc) = CALL THEN pc + 2
                             ELSE reg'[RegIx(ram_read(pc + 1))]]
          ELSE ram' = ram]_vars

C20_Witness ==
    /\ LastReturned
    /\ Last.ir = PUSH
    /\ Last.a = 0
    /\ Last.reg[0] = 255
    /\ Last.reg[SP] = 244
    /\ reg[SP] = 243
    /\ ram[243] = 255

====
